---- MODULE Spec2Model ----
(***************************************************************************)
(* kube-opex-analytics backend (src/backend.py): the quantity decoder, the *)
(* usage snapshot builder (K8sUsage), the sampler loop                     *)
(* (create_metrics_puller), the series store adapter (Rrd) and the         *)
(* histogram cost analytics (Rrd.dump_histogram_analytics).                *)
(*                                                                         *)
(* Numbers.  Python floats are modelled as exact integers in a fixed unit: *)
(*   cpu quantities      nano-cores          ("1" = 10^9, "1m" = 10^6)     *)
(*   memory quantities   bytes                                             *)
(*   rrd samples         10^-6 of the stored unit (percent, currency)      *)
(*   costs               10^-6 (db_round_decimals) of the published unit   *)
(* Strings that the code takes apart (quantity strings) are sequences of   *)
(* one-character strings; strings it only compares or copies are strings.  *)
(***************************************************************************)
EXTENDS Integers, Sequences, FiniteSets, TLC

VARIABLES
    api,             \* what pull_k8s returns for each of the five endpoints
    now,             \* calendar.timegm(time.gmtime()), in polling intervals
    pcS,             \* position of the sampler thread (create_metrics_puller)
    err,             \* the exception that ended the sampler thread, "" if none
    nodes,           \* K8sUsage.nodes
    pods,            \* K8sUsage.pods
    nsResUsage,      \* K8sUsage.nsResUsage
    cpuUsedByPods,   \* K8sUsage.cpuUsedByPods
    memUsedByPods,   \* K8sUsage.memUsedByPods
    cpuCapacity,     \* K8sUsage.cpuCapacity
    memCapacity,     \* K8sUsage.memCapacity
    cpuAllocatable,  \* K8sUsage.cpuAllocatable
    memAllocatable,  \* K8sUsage.memAllocatable
    persisted,       \* the entities the persisting phase of this cycle is done with
    logged,          \* the entities KOA_LOGGER.error was called for in this cycle
    rrd,             \* the rrd files under db_location: name -> rows
    files,           \* the published artifacts under frontend_data_location
    httpRead,        \* the last content the HTTP server read from an artifact
    pcM,             \* position of the main thread (module level)
    cost_model,      \* KOA_CONFIG.cost_model
    billing_hourly_rate,  \* KOA_CONFIG.billing_hourly_rate, a float
    pcE,             \* position of the exporter thread (dump_analytics)
    errE,            \* the exception that ended the exporter thread, "" if none
    dbfiles,         \* dump_analytics: the file names os.walk listed
    period,          \* dump_histogram_analytics: its period argument
    usage_export,    \* dump_histogram_analytics: the records to write
    gauges,          \* the Prometheus gauges: the values set
    db_index,        \* dump_trend_analytics: the position of its loop over dbfiles
    res_usage,       \* dump_trend_analytics: the trend data appended so far
    fetched          \* the calls of rrdtool.fetch of this pass of dump_analytics

k8sVars == <<nodes, pods, nsResUsage, cpuUsedByPods, memUsedByPods,
             cpuCapacity, memCapacity, cpuAllocatable, memAllocatable>>

samplerVars == <<pcS, err, k8sVars, persisted, logged>>

mainVars == <<pcM, cost_model, billing_hourly_rate>>

trendVars == <<db_index, res_usage, fetched>>

exporterVars == <<pcE, errE, dbfiles, period, usage_export, gauges, trendVars>>

vars == <<api, now, samplerVars, rrd, files, httpRead, mainVars, exporterVars>>

(***************************************************************************)
(* Python values                                                           *)
(***************************************************************************)
None == "None"

\* a Python float: not-a-number, or a number in 10^-6
NaN      == [nan |-> TRUE,  micro |-> 0]
Float(n) == [nan |-> FALSE, micro |-> n]

\* x <= y and x > y of floats: every comparison with NaN is false
FloatLE(x, y) == ~x.nan /\ ~y.nan /\ x.micro <= y.micro
FloatGT(x, y) == ~x.nan /\ ~y.nan /\ x.micro > y.micro

\* the return value of pull_k8s: None, or the text of a listing
NoData       == [none |-> TRUE, items |-> <<>>]
Listing(its) == [none |-> FALSE, items |-> its]

Range(s) == {s[i] : i \in 1..Len(s)}

\* a dict keeps its insertion order: keys in order, val the mapping
EmptyDict == [keys |-> <<>>, val |-> [k \in {} |-> 0]]

Has(d, k) == k \in DOMAIN d.val

DictPut(d, k, v) ==
    [keys |-> IF Has(d, k) THEN d.keys ELSE Append(d.keys, k),
     val  |-> [x \in (DOMAIN d.val) \cup {k} |-> IF x = k THEN v ELSE d.val[x]]]

\* d.values(), in iteration order
Values(d) == [i \in 1..Len(d.keys) |-> d.val[d.keys[i]]]

RECURSIVE SumSeq(_)
SumSeq(s) == IF s = <<>> THEN 0 ELSE s[1] + SumSeq(Tail(s))

(***************************************************************************)
(* Quantity decoder                                                        *)
(***************************************************************************)
Digits == {"0", "1", "2", "3", "4", "5", "6", "7", "8", "9"}

DigitVal(c) ==
    CASE c = "0" -> 0 [] c = "1" -> 1 [] c = "2" -> 2 [] c = "3" -> 3
      [] c = "4" -> 4 [] c = "5" -> 5 [] c = "6" -> 6 [] c = "7" -> 7
      [] c = "8" -> 8 [] c = "9" -> 9

RECURSIVE NatVal(_)
NatVal(s) == IF s = <<>> THEN 0
             ELSE 10 * NatVal(SubSeq(s, 1, Len(s) - 1)) + DigitVal(s[Len(s)])

IsNat(s) == Len(s) > 0 /\ \A i \in 1..Len(s) : s[i] \in Digits

\* int(s): an optional sign and decimal digits, ValueError on anything else
Ok(v)      == [ok |-> TRUE, val |-> v]
ValueError == [ok |-> FALSE, val |-> 0]

int(s) ==
    IF IsNat(s) THEN Ok(NatVal(s))
    ELSE IF Len(s) > 1 /\ s[1] \in {"+", "-"} /\ IsNat(Tail(s))
         THEN Ok(IF s[1] = "-" THEN 0 - NatVal(Tail(s)) ELSE NatVal(Tail(s)))
         ELSE ValueError

Scaled(factor, parsed) == IF parsed.ok THEN Ok(factor * parsed.val) ELSE ValueError

\* cap_input[data_length - 2:] and cap_input[0:data_length - 2]
\* (a negative start index counts from the end of the string)
LastTwo(s)    == IF Len(s) >= 2 THEN SubSeq(s, Len(s) - 1, Len(s)) ELSE s
ButLastTwo(s) == IF Len(s) >= 2 THEN SubSeq(s, 1, Len(s) - 2) ELSE <<>>
\* cap_input[data_length - 1:] and cap_input[0:data_length - 1]
LastOne(s)    == IF Len(s) >= 1 THEN SubSeq(s, Len(s), Len(s)) ELSE <<>>
ButLastOne(s) == IF Len(s) >= 1 THEN SubSeq(s, 1, Len(s) - 1) ELSE <<>>

EndsWithI(s) == Len(s) >= 1 /\ s[Len(s)] = "i"

\* bytes
decode_memory_capacity(cap_input) ==
    LET cap_unit  == IF EndsWithI(cap_input) THEN LastTwo(cap_input) ELSE <<>>
        cap_value == IF EndsWithI(cap_input) THEN ButLastTwo(cap_input) ELSE cap_input
    IN  CASE cap_unit = <<>>         -> int(cap_value)
          [] cap_unit = <<"K", "i">> -> Scaled(1000, int(cap_value))
          [] cap_unit = <<"M", "i">> -> Scaled(1000000, int(cap_value))
          [] cap_unit = <<"G", "i">> -> Scaled(1000000000, int(cap_value))
          [] cap_unit = <<"T", "i">> -> Scaled(10^12, int(cap_value))
          [] cap_unit = <<"P", "i">> -> Scaled(10^15, int(cap_value))
          [] cap_unit = <<"E", "i">> -> Scaled(10^18, int(cap_value))
          [] OTHER                   -> Ok(0)

\* nano-cores
decode_cpu_capacity(cap_input) ==
    LET cap_unit  == LastOne(cap_input)
        cap_value == ButLastOne(cap_input)
    IN  CASE cap_unit = <<"n">> -> Scaled(1, int(cap_value))
          [] cap_unit = <<"u">> -> Scaled(1000, int(cap_value))
          [] cap_unit = <<"m">> -> Scaled(1000000, int(cap_value))
          [] OTHER              -> Scaled(1000000000, int(cap_input))

(***************************************************************************)
(* Usage snapshot builder: the objects                                     *)
(***************************************************************************)
\* Node.__init__
Node ==
    [id |-> "", name |-> "", state |-> "", message |-> "",
     cpuCapacity |-> 0, cpuAllocatable |-> 0, cpuUsage |-> 0,
     memCapacity |-> 0, memAllocatable |-> 0, memUsage |-> 0,
     containerRuntime |-> "", podsRunning |-> <<>>, podsNotRunning |-> <<>>]

\* Pod.__init__; cpuUsage and memUsage are attributes a Pod only gets in
\* extract_pod_metrics: hasUsage is hasattr(pod, 'cpuUsage') and
\* hasattr(pod, 'memUsage')
Pod ==
    [name |-> "", namespace |-> "", id |-> "", nodeName |-> "", phase |-> "",
     state |-> "PodNotScheduled", hasUsage |-> FALSE, cpuUsage |-> 0, memUsage |-> 0]

ResourceUsage(cpu, mem) == [cpuUsage |-> cpu, memUsage |-> mem]

(***************************************************************************)
(* extract_namespaces_and_initialize_usage                                 *)
(***************************************************************************)
RECURSIVE NamespacesFrom(_, _)
NamespacesFrom(items, d) ==
    IF items = <<>> THEN d
    ELSE NamespacesFrom(Tail(items), DictPut(d, items[1], ResourceUsage(0, 0)))

(***************************************************************************)
(* extract_nodes                                                           *)
(***************************************************************************)
\* the condition loop of extract_nodes: the list is scanned in list order,
\* the message of every scanned condition is recorded, and the scan stops at
\* the first condition of a known type whose status is 'True'
NodeConditionTypes ==
    {"Ready", "KernelDeadlock", "NetworkUnavailable", "OutOfDisk",
     "MemoryPressure", "DiskPressure"}

\* NodeConditions scanning by priority of the type instead of list order
RECURSIVE NodeConditions_priority(_, _)
NodeConditions_priority(conds, node) ==
    LET last  == IF conds = <<>> THEN node
                 ELSE [node EXCEPT !.message = conds[Len(conds)].message]
        order == <<"Ready", "KernelDeadlock", "NetworkUnavailable", "OutOfDisk",
                   "MemoryPressure", "DiskPressure">>
        ranks == {r \in 1..Len(order) :
                     \E i \in 1..Len(conds) :
                         conds[i].type = order[r] /\ conds[i].status = "True"}
    IN  IF ranks = {} THEN last
        ELSE [last EXCEPT !.state = order[CHOOSE r \in ranks : \A q \in ranks : r <= q]]

RECURSIVE NodeConditions(_, _)
NodeConditions(conds, node) ==
    IF conds = <<>> THEN node
    ELSE LET cond == conds[1]
             seen == [node EXCEPT !.message = cond.message]
         IN  IF cond.type \in NodeConditionTypes /\ cond.status = "True"
             THEN [seen EXCEPT !.state = cond.type]
             ELSE NodeConditions(Tail(conds), seen)

\* one iteration of the item loop up to self.nodes[node.name] = node
NodeOfItem(item) ==
    LET cc == decode_cpu_capacity(item.capacity.cpu)
        ca == decode_cpu_capacity(item.allocatable.cpu)
        mc == decode_memory_capacity(item.capacity.memory)
        ma == decode_memory_capacity(item.allocatable.memory)
    IN  IF cc.ok /\ ca.ok /\ mc.ok /\ ma.ok
        THEN [ok |-> TRUE,
              node |-> NodeConditions(item.conditions,
                          [Node EXCEPT !.name = item.name, !.id = item.uid,
                                       !.cpuCapacity = cc.val, !.cpuAllocatable = ca.val,
                                       !.memCapacity = mc.val, !.memAllocatable = ma.val,
                                       !.containerRuntime = item.containerRuntime])]
        ELSE [ok |-> FALSE, node |-> Node]

RECURSIVE NodesFrom(_, _)
NodesFrom(items, d) ==
    IF items = <<>> THEN [err |-> "", nodes |-> d]
    ELSE LET r == NodeOfItem(items[1])
         IN  IF r.ok THEN NodesFrom(Tail(items), DictPut(d, r.node.name, r.node))
             ELSE [err |-> "ValueError", nodes |-> d]

(***************************************************************************)
(* extract_node_metrics                                                    *)
(***************************************************************************)
RECURSIVE NodeMetricsFrom(_, _)
NodeMetricsFrom(items, d) ==
    IF items = <<>> THEN [err |-> "", nodes |-> d]
    ELSE LET item == items[1]
         IN  IF ~Has(d, item.name) THEN NodeMetricsFrom(Tail(items), d)
             ELSE LET cpu   == decode_cpu_capacity(item.cpu)
                      mem   == decode_memory_capacity(item.memory)
                      node  == d.val[item.name]
                      node1 == [node EXCEPT !.cpuUsage = cpu.val]
                      node2 == [node1 EXCEPT !.memUsage = mem.val]
                  IN  IF ~cpu.ok THEN [err |-> "ValueError", nodes |-> d]
                      ELSE IF ~mem.ok
                           THEN [err |-> "ValueError", nodes |-> DictPut(d, item.name, node1)]
                           ELSE NodeMetricsFrom(Tail(items), DictPut(d, item.name, node2))

(***************************************************************************)
(* extract_pods                                                            *)
(***************************************************************************)
PodConditionTypes == {"Ready", "ContainersReady", "PodScheduled", "Initialized"}

RECURSIVE PodConditions(_)
PodConditions(conds) ==
    IF conds = <<>> THEN "PodNotScheduled"
    ELSE IF conds[1].type \in PodConditionTypes /\ conds[1].status = "True"
         THEN conds[1].type
         ELSE PodConditions(Tail(conds))

PodKey(name, namespace) == name \o "." \o namespace

PodOfItem(item) ==
    LET state == IF item.hasConditions THEN PodConditions(item.conditions)
                 ELSE Pod.state
    IN  [Pod EXCEPT !.namespace = item.namespace,
                    !.name = PodKey(item.name, item.namespace),
                    !.id = item.uid, !.phase = item.phase, !.state = state,
                    !.nodeName = IF state # "PodNotScheduled" THEN item.nodeName ELSE None]

RECURSIVE PodsFrom(_, _)
PodsFrom(items, d) ==
    IF items = <<>> THEN d
    ELSE LET pod == PodOfItem(items[1])
         IN  PodsFrom(Tail(items), DictPut(d, pod.name, pod))

(***************************************************************************)
(* extract_pod_metrics                                                     *)
(***************************************************************************)
\* the container loop: the pod is updated in place, so a decode error leaves
\* the sums made so far
RECURSIVE ContainersInto(_, _)
ContainersInto(containers, pod) ==
    IF containers = <<>> THEN [err |-> "", pod |-> pod]
    ELSE LET cpu  == decode_cpu_capacity(containers[1].cpu)
             mem  == decode_memory_capacity(containers[1].memory)
             pod1 == [pod EXCEPT !.cpuUsage = @ + cpu.val]
             pod2 == [pod1 EXCEPT !.memUsage = @ + mem.val]
         IN  IF ~cpu.ok THEN [err |-> "ValueError", pod |-> pod]
             ELSE IF ~mem.ok THEN [err |-> "ValueError", pod |-> pod1]
                  ELSE ContainersInto(Tail(containers), pod2)

RECURSIVE PodMetricsFrom(_, _)
PodMetricsFrom(items, d) ==
    IF items = <<>> THEN [err |-> "", pods |-> d]
    ELSE LET podName == PodKey(items[1].name, items[1].namespace)
         IN  IF ~Has(d, podName) THEN PodMetricsFrom(Tail(items), d)
             ELSE LET r == ContainersInto(items[1].containers,
                               [d.val[podName] EXCEPT !.hasUsage = TRUE,
                                                      !.cpuUsage = 0, !.memUsage = 0])
                  IN  IF r.err # "" THEN [err |-> r.err, pods |-> DictPut(d, podName, r.pod)]
                      ELSE PodMetricsFrom(Tail(items), DictPut(d, podName, r.pod))

(***************************************************************************)
(* consolidate_ns_usage                                                    *)
(***************************************************************************)
\* the pod loop, over a record of the fields it updates; a dict lookup of a
\* missing key raises KeyError and leaves the updates made before it
\* ConsolidatePods with the namespace entry assigned (=) instead of
\* accumulated (+=)
RECURSIVE ConsolidatePods_assign(_, _)
ConsolidatePods_assign(podList, u) ==
    IF podList = <<>> THEN u
    ELSE LET pod == podList[1]
         IN  IF ~pod.hasUsage THEN ConsolidatePods_assign(Tail(podList), u)
             ELSE LET u1 == [u EXCEPT !.cpuUsedByPods = @ + pod.cpuUsage]
                      u2 == [u1 EXCEPT !.nsResUsage = DictPut(@, pod.namespace,
                                           ResourceUsage(pod.cpuUsage, pod.memUsage)),
                                       !.memUsedByPods = @ + pod.memUsage]
                      nd == u.nodes.val[pod.nodeName]
                      u3 == [u2 EXCEPT !.nodes = DictPut(@, pod.nodeName,
                                           [nd EXCEPT !.podsRunning = Append(@, pod.name)])]
                  IN  IF ~Has(u.nsResUsage, pod.namespace) THEN [u1 EXCEPT !.err = "KeyError"]
                      ELSE IF ~Has(u.nodes, pod.nodeName) THEN [u2 EXCEPT !.err = "KeyError"]
                           ELSE ConsolidatePods_assign(Tail(podList), u3)

RECURSIVE ConsolidatePods(_, _)
ConsolidatePods(podList, u) ==
    IF podList = <<>> THEN u
    ELSE LET pod == podList[1]
         IN  IF ~pod.hasUsage THEN ConsolidatePods(Tail(podList), u)
             ELSE LET u1 == [u EXCEPT !.cpuUsedByPods = @ + pod.cpuUsage]
                      ns == u.nsResUsage.val[pod.namespace]
                      u2 == [u1 EXCEPT !.nsResUsage = DictPut(@, pod.namespace,
                                           ResourceUsage(ns.cpuUsage + pod.cpuUsage,
                                                         ns.memUsage + pod.memUsage)),
                                       !.memUsedByPods = @ + pod.memUsage]
                      nd == u.nodes.val[pod.nodeName]
                      u3 == [u2 EXCEPT !.nodes = DictPut(@, pod.nodeName,
                                           [nd EXCEPT !.podsRunning = Append(@, pod.name)])]
                  IN  IF ~Has(u.nsResUsage, pod.namespace) THEN [u1 EXCEPT !.err = "KeyError"]
                      ELSE IF ~Has(u.nodes, pod.nodeName) THEN [u2 EXCEPT !.err = "KeyError"]
                           ELSE ConsolidatePods(Tail(podList), u3)

NodeField(d, f) == [i \in 1..Len(d.keys) |-> d.val[d.keys[i]][f]]

(***************************************************************************)
(* Exact arithmetic on 32-bit integers                                     *)
(***************************************************************************)
RECURSIVE GCD(_, _)
GCD(a, b) == IF b = 0 THEN a ELSE GCD(b, a % b)

\* a * b = q * c + r with 0 <= r < c, for a, b >= 0 and 0 < c < 2^27,
\* three bits of b at a time, so that no intermediate value leaves the
\* 32-bit range
RECURSIVE MulDiv(_, _, _)
MulDiv(a, b, c) ==
    IF b = 0 THEN [q |-> 0, r |-> 0]
    ELSE IF a <= 2147483647 \div b THEN [q |-> (a * b) \div c, r |-> (a * b) % c]
    ELSE LET h == MulDiv(a, b \div 8, c)
             n == 8 * h.r + (b % 8) * (a % c)
         IN  [q |-> 8 * h.q + (b % 8) * (a \div c) + (n \div c), r |-> n % c]

\* round(a * b / c) as Python 3 rounds: to nearest, ties to even
RoundMulDiv(a, b, c) ==
    LET g == GCD(a, c)
        d == MulDiv(a \div g, b, c \div g)
        m == c \div g
    IN  IF 2 * d.r > m \/ (2 * d.r = m /\ d.q % 2 = 1) THEN d.q + 1 ELSE d.q

Micro == 1000000      \* 10 ^ KOA_CONFIG.db_round_decimals

\* round((100.0 * value) / total, db_round_decimals), in 10^-6 percent
compute_usage_percent_ratio(value, total) ==
    IF value >= 0 THEN RoundMulDiv(value, 100 * Micro, total)
    ELSE 0 - RoundMulDiv(0 - value, 100 * Micro, total)

(***************************************************************************)
(* Configuration (Config) and the series store (Rrd)                       *)
(***************************************************************************)
db_non_allocatable     == "non-allocatable"
db_billing_hourly_rate == ".billing-hourly-rate"

MaxTime      == 4     \* the instants (polling intervals) of an rrd file: 1..MaxTime
MaxCycles    == 2     \* the cycles of the sampler loop in a run
StepsPerHour == 2     \* the polling intervals of an hour (12 in 'RRA:AVERAGE:0.5:12:8880')

\* a row of an rrd file: unknown until a sample is stored for its instant
NoRow          == [known |-> FALSE, cpu |-> 0, mem |-> 0]
Row(cpu, mem)  == [known |-> TRUE, cpu |-> cpu, mem |-> mem]
\* create_rrd_file_if_not_exists: rrdtool.create makes a file of unknown rows
NewRrd         == [t \in 1..MaxTime |-> NoRow]

PERIOD_5_MINS_SEC == 300
PERIOD_1_HOUR_SEC == 3600
PERIOD_7_DAYS_SEC == 604800

\* the hours an rrd file holds whole, and the hour of an instant
NumHours  == MaxTime \div StepsPerHour
HourOf(t) == (t - 1) \div StepsPerHour + 1

\* what the storage does to one entity's Rrd(...) and add_sample(...)
StoreOutcomes == {"ok", "makedirs_error", "create_error", "update_error"}

(***************************************************************************)
(* Published artifacts: open(path, 'w') truncates, fd.write fills          *)
(***************************************************************************)
NodesJson == "nodes.json"

PERIOD_14_DAYS_SEC == 1209600
PERIOD_YEAR_SEC    == 31968000

\* '%s/cpu_usage_period_%d.json' and '%s/memory_usage_period_%d.json'
HistogramJson(res, per) ==
    IF res = "cpu"
    THEN (IF per = PERIOD_YEAR_SEC THEN "cpu_usage_period_31968000.json"
          ELSE "cpu_usage_period_1209600.json")
    ELSE (IF per = PERIOD_YEAR_SEC THEN "memory_usage_period_31968000.json"
          ELSE "memory_usage_period_1209600.json")

\* '%s/cpu_usage_trends.json' and '%s/memory_usage_trends.json'
TrendJson(res) == IF res = "cpu" THEN "cpu_usage_trends.json" ELSE "memory_usage_trends.json"

Artifacts ==
    {NodesJson} \cup {TrendJson(res) : res \in {"cpu", "mem"}}
                \cup {HistogramJson(res, per) : res \in {"cpu", "mem"},
                                               per \in {PERIOD_14_DAYS_SEC, PERIOD_YEAR_SEC}}

NoFile         == [exists |-> FALSE, data |-> <<>>, whole |-> FALSE]
Truncated      == [exists |-> TRUE, data |-> <<>>, whole |-> FALSE]
Partial(doc)   == [exists |-> TRUE, data |-> SubSeq(doc, 1, Len(doc) - 1), whole |-> FALSE]
Written(doc)   == [exists |-> TRUE, data |-> doc, whole |-> TRUE]

NoRead == [file |-> None, data |-> <<>>, whole |-> TRUE]

(***************************************************************************)
(* Cluster responses the specifications draw from                          *)
(***************************************************************************)
MaxPods == 2          \* the longest pod listing and pod-metrics listing

\* the sequences of at most n distinct elements of S
DistinctSeqs(S, n) ==
    {q \in UNION {[1..k -> S] : k \in 0..n} :
        \A i, j \in 1..Len(q) : i # j => q[i] # q[j]}

Cond(type, status) == [type |-> type, status |-> status, message |-> type \o "=" \o status]

HealthyConditions ==
    <<Cond("MemoryPressure", "False"), Cond("DiskPressure", "False"),
      Cond("PIDPressure", "False"), Cond("Ready", "True")>>

NodeItem(name, cpuCap, cpuAlloc, memCap, memAlloc, conds) ==
    [name |-> name, uid |-> "uid-" \o name,
     capacity |-> [cpu |-> cpuCap, memory |-> memCap],
     allocatable |-> [cpu |-> cpuAlloc, memory |-> memAlloc],
     containerRuntime |-> "containerd://1.6", conditions |-> conds]

NodeN1 == NodeItem("n1", <<"1">>, <<"9", "0", "0", "m">>,
                   <<"1", "G", "i">>, <<"9", "0", "0", "M", "i">>, HealthyConditions)
NodeN2 == NodeItem("n2", <<"5", "0", "0", "m">>, <<"5", "0", "0", "m">>,
                   <<"5", "1", "2", "M", "i">>, <<"5", "1", "2", "M", "i">>, HealthyConditions)

NodeMetricsItem(name, cpu, memory) == [name |-> name, cpu |-> cpu, memory |-> memory]

NodeMetricsN1 == NodeMetricsItem("n1", <<"2", "5", "0", "m">>, <<"1", "2", "8", "M", "i">>)
NodeMetricsN3 == NodeMetricsItem("n3", <<"1", "0", "m">>, <<"1", "M", "i">>)

PodItem(name, namespace, phase, hasConditions, conds, nodeName) ==
    [name |-> name, namespace |-> namespace, uid |-> "uid-" \o name \o "." \o namespace,
     phase |-> phase, hasConditions |-> hasConditions, conditions |-> conds,
     nodeName |-> nodeName]

PodItems ==
    {PodItem("p1", "a", "Running", TRUE,
             <<Cond("Initialized", "True"), Cond("Ready", "True")>>, "n1"),
     PodItem("p2", "a", "Running", TRUE,
             <<Cond("Ready", "False"), Cond("PodScheduled", "True")>>, "n2"),
     PodItem("p1", "b", "Running", TRUE, <<Cond("Ready", "True")>>, "n1"),
     PodItem("p3", "b", "Pending", TRUE, <<Cond("PodScheduled", "False")>>, None)}

Usage(cpu, memory) == [cpu |-> cpu, memory |-> memory]

PodMetricsItem(name, namespace, containers) ==
    [name |-> name, namespace |-> namespace, containers |-> containers]

PodMetricsItems ==
    {PodMetricsItem("p1", "a", <<Usage(<<"1", "0", "0", "m">>, <<"6", "4", "M", "i">>),
                                 Usage(<<"2", "5", "0", "n">>, <<"1", "K", "i">>)>>),
     PodMetricsItem("p2", "a", <<Usage(<<"3", "u">>, <<"2", "0", "4", "8">>)>>),
     PodMetricsItem("p1", "b", <<Usage(<<"2", "0", "m">>, <<"1", "6", "M", "i">>)>>),
     PodMetricsItem("p3", "b", <<Usage(<<"1", "m">>, <<"1", "M", "i">>)>>)}

Endpoints == {"namespaces", "nodes", "node_metrics", "pods", "pod_metrics"}

\* pull_k8s returns None when the request fails, else the body
SnapshotApis ==
    [namespaces   : {NoData, Listing(<<"a">>), Listing(<<"a", "b">>)},
     nodes        : {NoData, Listing(<<NodeN1>>), Listing(<<NodeN1, NodeN2>>)},
     node_metrics : {NoData, Listing(<<NodeMetricsN1, NodeMetricsN3>>)},
     pods         : {NoData} \cup {Listing(q) : q \in DistinctSeqs(PodItems, MaxPods)},
     pod_metrics  : {NoData} \cup {Listing(q) : q \in DistinctSeqs(PodMetricsItems, MaxPods)}]

\* the cluster as the cycles of the sampler loop find it
LoopApis ==
    [namespaces   : {Listing(<<"a">>), Listing(<<"a", "b">>)},
     nodes        : {NoData, Listing(<<NodeN1, NodeN2>>)},
     node_metrics : {NoData},
     pods         : {Listing(<<PodItem("p1", "a", "Running", TRUE,
                                          <<Cond("Ready", "True")>>, "n1")>>)},
     pod_metrics  : {Listing(<<PodMetricsItem("p1", "a",
                        <<Usage(<<"1", "0", "0", "m">>, <<"6", "4", "M", "i">>)>>)>>)}]

(***************************************************************************)
(* The sampler thread: create_metrics_puller                               *)
(***************************************************************************)
Raise(e) == pcS' = "crashed" /\ err' = e

\* a cycle that goes on with the nodes, pods and namespace usage of the
\* cycle before
NewSnapshot_carry ==
    /\ pcS = "new"
    /\ cpuUsedByPods' = 0 /\ memUsedByPods' = 0
    /\ cpuCapacity' = 0 /\ memCapacity' = 0
    /\ cpuAllocatable' = 0 /\ memAllocatable' = 0
    /\ persisted' = <<>> /\ logged' = {}
    /\ pcS' = "namespaces"
    /\ UNCHANGED <<mainVars, exporterVars, api, now, err, nodes, pods, nsResUsage,
                   rrd, files, httpRead>>

\* k8s_usage = K8sUsage()
NewSnapshot ==
    /\ pcS = "new"
    /\ nodes' = EmptyDict /\ pods' = EmptyDict /\ nsResUsage' = EmptyDict
    /\ cpuUsedByPods' = 0 /\ memUsedByPods' = 0
    /\ cpuCapacity' = 0 /\ memCapacity' = 0
    /\ cpuAllocatable' = 0 /\ memAllocatable' = 0
    /\ persisted' = <<>> /\ logged' = {}
    /\ pcS' = "namespaces"
    /\ UNCHANGED <<mainVars, exporterVars, api, now, err, rrd, files, httpRead>>

\* extract_namespaces_and_initialize_usage(pull_k8s('/api/v1/namespaces'))
extract_namespaces_and_initialize_usage ==
    /\ pcS = "namespaces"
    /\ LET data == api.namespaces
       IN  nsResUsage' = IF data.none THEN nsResUsage ELSE NamespacesFrom(data.items, nsResUsage)
    /\ pcS' = "nodes"
    /\ UNCHANGED <<mainVars, exporterVars, api, now, err, nodes, pods, cpuUsedByPods, memUsedByPods,
                   cpuCapacity, memCapacity, cpuAllocatable, memAllocatable,
                   persisted, logged, rrd, files, httpRead>>

\* extract_nodes(pull_k8s('/api/v1/nodes'))
extract_nodes ==
    /\ pcS = "nodes"
    /\ LET data == api.nodes
           r    == IF data.none THEN [err |-> "", nodes |-> nodes]
                   ELSE NodesFrom(data.items, nodes)
       IN  /\ nodes' = r.nodes
           /\ IF r.err = "" THEN pcS' = "node_metrics" /\ err' = err ELSE Raise(r.err)
    /\ UNCHANGED <<mainVars, exporterVars, api, now, pods, nsResUsage, cpuUsedByPods, memUsedByPods,
                   cpuCapacity, memCapacity, cpuAllocatable, memAllocatable,
                   persisted, logged, rrd, files, httpRead>>

\* extract_node_metrics(pull_k8s('/apis/metrics.k8s.io/v1beta1/nodes'))
extract_node_metrics ==
    /\ pcS = "node_metrics"
    /\ LET data == api.node_metrics
           r    == IF data.none THEN [err |-> "", nodes |-> nodes]
                   ELSE NodeMetricsFrom(data.items, nodes)
       IN  /\ nodes' = r.nodes
           /\ IF r.err = "" THEN pcS' = "pods" /\ err' = err ELSE Raise(r.err)
    /\ UNCHANGED <<mainVars, exporterVars, api, now, pods, nsResUsage, cpuUsedByPods, memUsedByPods,
                   cpuCapacity, memCapacity, cpuAllocatable, memAllocatable,
                   persisted, logged, rrd, files, httpRead>>

\* extract_pods(pull_k8s('/api/v1/pods'))
extract_pods ==
    /\ pcS = "pods"
    /\ LET data == api.pods
       IN  pods' = IF data.none THEN pods ELSE PodsFrom(data.items, pods)
    /\ pcS' = "pod_metrics"
    /\ UNCHANGED <<mainVars, exporterVars, api, now, err, nodes, nsResUsage, cpuUsedByPods, memUsedByPods,
                   cpuCapacity, memCapacity, cpuAllocatable, memAllocatable,
                   persisted, logged, rrd, files, httpRead>>

\* extract_pod_metrics(pull_k8s('/apis/metrics.k8s.io/v1beta1/pods'))
extract_pod_metrics ==
    /\ pcS = "pod_metrics"
    /\ LET data == api.pod_metrics
           r    == IF data.none THEN [err |-> "", pods |-> pods]
                   ELSE PodMetricsFrom(data.items, pods)
       IN  /\ pods' = r.pods
           /\ IF r.err = "" THEN pcS' = "consolidate" /\ err' = err ELSE Raise(r.err)
    /\ UNCHANGED <<mainVars, exporterVars, api, now, nodes, nsResUsage, cpuUsedByPods, memUsedByPods,
                   cpuCapacity, memCapacity, cpuAllocatable, memAllocatable,
                   persisted, logged, rrd, files, httpRead>>

\* k8s_usage.consolidate_ns_usage()
consolidate_ns_usage ==
    /\ pcS = "consolidate"
    /\ LET u == ConsolidatePods(Values(pods),
                    [cpuUsedByPods |-> 0, memUsedByPods |-> 0,
                     nsResUsage |-> nsResUsage, nodes |-> nodes, err |-> ""])
       IN  /\ cpuUsedByPods' = u.cpuUsedByPods
           /\ memUsedByPods' = u.memUsedByPods
           /\ nsResUsage' = u.nsResUsage
           /\ nodes' = u.nodes
           /\ IF u.err = ""
              THEN /\ cpuCapacity' = cpuCapacity + SumSeq(NodeField(u.nodes, "cpuCapacity"))
                   /\ memCapacity' = memCapacity + SumSeq(NodeField(u.nodes, "memCapacity"))
                   /\ cpuAllocatable' = cpuAllocatable + SumSeq(NodeField(u.nodes, "cpuAllocatable"))
                   /\ memAllocatable' = memAllocatable + SumSeq(NodeField(u.nodes, "memAllocatable"))
                   /\ pcS' = "dump_nodes" /\ err' = err
              ELSE /\ UNCHANGED <<cpuCapacity, memCapacity, cpuAllocatable, memAllocatable>>
                   /\ Raise(u.err)
    /\ UNCHANGED <<mainVars, exporterVars, api, now, pods, persisted, logged, rrd, files, httpRead>>

\* json.dumps(self.nodes, cls=JSONMarshaller): one element per node
NodesDocument == Values(nodes)

\* dump_nodes: open(.../nodes.json, 'w')
dump_nodes_open ==
    /\ pcS = "dump_nodes"
    /\ files' = [files EXCEPT ![NodesJson] = Truncated]
    /\ pcS' = "dump_nodes_write"
    /\ UNCHANGED <<mainVars, exporterVars, api, now, err, k8sVars, persisted, logged, rrd, httpRead>>

\* dump_nodes: fd.write(...) reaching the file in two parts
dump_nodes_flush ==
    /\ pcS = "dump_nodes_write"
    /\ Len(NodesDocument) > 1
    /\ files[NodesJson] = Truncated
    /\ files' = [files EXCEPT ![NodesJson] = Partial(NodesDocument)]
    /\ UNCHANGED <<mainVars, exporterVars, api, now, samplerVars, rrd, httpRead>>

\* dump_nodes with the persisting phase entered whatever the capacities
dump_nodes_close_always ==
    /\ pcS = "dump_nodes_write"
    /\ files' = [files EXCEPT ![NodesJson] = Written(NodesDocument)]
    /\ pcS' = "persisting"
    /\ UNCHANGED <<mainVars, exporterVars, api, now, err, k8sVars, persisted, logged, rrd, httpRead>>

\* dump_nodes: the end of the with block; then the test of the capacities
dump_nodes_close ==
    /\ pcS = "dump_nodes_write"
    /\ files' = [files EXCEPT ![NodesJson] = Written(NodesDocument)]
    /\ pcS' = IF cpuCapacity > 0 /\ memCapacity > 0 THEN "persisting" ELSE "sleeping"
    /\ UNCHANGED <<mainVars, exporterVars, api, now, err, k8sVars, persisted, logged, rrd, httpRead>>

\* the entities of the persisting phase, in the order of the code
PersistList == <<db_non_allocatable, db_billing_hourly_rate>> \o nsResUsage.keys

\* the sample the code computes for an entity
SampleOf(db) ==
    IF db = db_non_allocatable
    THEN Row(compute_usage_percent_ratio(cpuCapacity - cpuAllocatable, cpuCapacity),
             compute_usage_percent_ratio(memCapacity - memAllocatable, memCapacity))
    ELSE IF db = db_billing_hourly_rate
         THEN (IF billing_hourly_rate.nan THEN NoRow   \* rrd keeps NaN as unknown
               ELSE Row(billing_hourly_rate.micro, billing_hourly_rate.micro))
         ELSE Row(compute_usage_percent_ratio(nsResUsage.val[db].cpuUsage, cpuCapacity),
                  compute_usage_percent_ratio(nsResUsage.val[db].memUsage, memCapacity))

\* Rrd.__init__ as the sampler runs it: the file is created if it is missing
Created(store, db) ==
    IF db \in DOMAIN store THEN store
    ELSE [x \in (DOMAIN store) \cup {db} |-> IF x = db THEN NewRrd ELSE store[x]]

\* Rrd.add_sample: rrdtool.update stores the sample for the instant
add_sample(store, db, t, sample) == [store EXCEPT ![db] = [@ EXCEPT ![t] = sample]]

\* one entity of the persisting phase: rrd = Rrd(...), the ratios,
\* rrd.add_sample(...).  Only add_sample catches (rrdtool.OperationalError
\* of rrdtool.update); an error of os.makedirs or rrdtool.create in
\* Rrd.__init__ leaves create_metrics_puller, and so does the
\* ZeroDivisionError of a ratio over a capacity of 0.0
persist_entity ==
    /\ pcS = "persisting"
    /\ Len(persisted) < Len(PersistList)
    /\ LET db   == PersistList[Len(persisted) + 1]
           zero == cpuCapacity = 0 \/ memCapacity = 0
       IN  \E outcome \in StoreOutcomes :
             /\ outcome = "create_error" => db \notin DOMAIN rrd
             /\ CASE outcome = "makedirs_error" ->
                       /\ Raise("OSError")
                       /\ UNCHANGED <<rrd, persisted, logged>>
                  [] outcome = "create_error" ->
                       /\ Raise("OperationalError")
                       /\ UNCHANGED <<rrd, persisted, logged>>
                  [] outcome \in {"update_error", "ok"} /\ zero ->
                       /\ rrd' = Created(rrd, db)
                       /\ Raise("ZeroDivisionError")
                       /\ UNCHANGED <<persisted, logged>>
                  [] outcome = "update_error" ->
                       /\ rrd' = Created(rrd, db)
                       /\ logged' = logged \cup {db}
                       /\ persisted' = Append(persisted, db)
                       /\ UNCHANGED <<pcS, err>>
                  [] outcome = "ok" ->
                       /\ rrd' = add_sample(Created(rrd, db), db, now, SampleOf(db))
                       /\ persisted' = Append(persisted, db)
                       /\ UNCHANGED <<pcS, err, logged>>
    /\ UNCHANGED <<mainVars, exporterVars, api, now, k8sVars, files, httpRead>>

\* the end of the if block, or of the for loop over nsResUsage
persist_done ==
    /\ pcS = "persisting"
    /\ Len(persisted) = Len(PersistList)
    /\ pcS' = "sleeping"
    /\ UNCHANGED <<mainVars, exporterVars, api, now, err, k8sVars, persisted, logged,
                   rrd, files, httpRead>>

\* time.sleep(polling_interval_sec): the next cycle polls the cluster as it
\* is by then
sleep ==
    /\ pcS = "sleeping"
    /\ now < MaxCycles
    /\ now' = now + 1
    /\ api' \in LoopApis
    /\ pcS' = "new"
    /\ UNCHANGED <<mainVars, exporterVars, err, k8sVars, persisted, logged, rrd, files, httpRead>>

(***************************************************************************)
(* The HTTP server (flask static files): a reader of the artifacts         *)
(***************************************************************************)
http_get ==
    /\ \E f \in DOMAIN files :
          /\ files[f].exists
          /\ httpRead' = [file |-> f, data |-> files[f].data, whole |-> files[f].whole]
    /\ UNCHANGED <<mainVars, exporterVars, api, now, samplerVars, rrd, files>>

(***************************************************************************)
(* Rrd.dump_histogram_data and Rrd.dump_histogram_analytics                *)
(***************************************************************************)
RowsPerDay   == 1     \* the hourly rows of a '%d %b' date group
RowsPerMonth == 2     \* the hourly rows of a '%b %Y' date group

Average(sum, n) ==
    IF sum >= 0 THEN RoundMulDiv(sum, 1, n) ELSE 0 - RoundMulDiv(0 - sum, 1, n)

\* the row of hour h in the archive 'RRA:AVERAGE:0.5:12:8880': the average of
\* the known values of its polling intervals; unknown while the hour is not
\* over, or when more than half (0.5) of its intervals are unknown
HourRow(rows, h) ==
    LET pdp   == [i \in 1..StepsPerHour |-> rows[(h - 1) * StepsPerHour + i]]
        n     == Cardinality({i \in 1..StepsPerHour : pdp[i].known})
        cpu   == SumSeq([i \in 1..StepsPerHour |-> IF pdp[i].known THEN pdp[i].cpu ELSE 0])
        mem   == SumSeq([i \in 1..StepsPerHour |-> IF pdp[i].known THEN pdp[i].mem ELSE 0])
    IN  IF h * StepsPerHour > now \/ 2 * (StepsPerHour - n) > StepsPerHour
        THEN NoRow
        ELSE Row(Average(cpu, n), Average(mem, n))

\* rrdtool.fetch(rrd_location, 'AVERAGE', '-r', step, '-s', start, '-e', end)
\* [2]: the rows of the archive of that step; the window holds every row
fetch(rows, step) ==
    IF step = PERIOD_1_HOUR_SEC THEN [h \in 1..NumHours |-> HourRow(rows, h)]
    ELSE rows

\* Rrd.get_date_group, of an hour
get_date_group(t, per) ==
    IF per = PERIOD_YEAR_SEC
    THEN [format |-> "%b %Y", n |-> (t - 1) \div RowsPerMonth]
    ELSE [format |-> "%d %b", n |-> (t - 1) \div RowsPerDay]

\* the loop of dump_histogram_data over the fetched rows: a row with an
\* unknown value raises in float() and is passed over
RECURSIVE HistogramRows(_, _, _, _)
HistogramRows(t, rows, per, d) ==
    IF t \notin DOMAIN rows THEN d
    ELSE LET cdp        == rows[t]
             date_group == get_date_group(t, per)
             old        == IF Has(d, date_group) THEN d.val[date_group]
                           ELSE [cpu |-> 0, mem |-> 0]
         IN  IF cdp.known
             THEN HistogramRows(t + 1, rows, per,
                      DictPut(d, date_group, [cpu |-> old.cpu + cdp.cpu,
                                              mem |-> old.mem + cdp.mem]))
             ELSE HistogramRows(t + 1, rows, per, d)

\* periodic_cpu_usage and periodic_mem_usage, as one dict of date groups
dump_histogram_data(rows, per) ==
    HistogramRows(1, fetch(rows, PERIOD_1_HOUR_SEC), per, EmptyDict)

Get(d, k, default) == IF Has(d, k) THEN d.val[k] ELSE default

\* sum_usage_per_type_date with the billing-rate entity counted as well
SumUsage_all(sum, res, date_key, db, usage_value) ==
    DictPut(sum, res, DictPut(Get(sum, res, EmptyDict), date_key,
                              Get(Get(sum, res, EmptyDict), date_key, 0) + usage_value))

\* sum_usage_per_type_date after one (db, res, date_key) with usage > 0
SumUsage(sum, res, date_key, db, usage_value) ==
    IF db # db_billing_hourly_rate
    THEN DictPut(sum, res, DictPut(Get(sum, res, EmptyDict), date_key,
                                   Get(Get(sum, res, EmptyDict), date_key, 0) + usage_value))
    ELSE sum

\* the loop over current_periodic_usage[res].items() of one db
RECURSIVE CollectDates(_, _, _, _, _)
CollectDates(dates, data, res, db, acc) ==
    IF dates = <<>> THEN acc
    ELSE LET date_key    == dates[1]
             usage_value == data.val[date_key][res]
             byDate      == Get(acc.usage, res, EmptyDict)
             byDb        == Get(byDate, date_key, EmptyDict)
         IN  IF usage_value > 0
             THEN CollectDates(Tail(dates), data, res, db,
                      [usage |-> DictPut(acc.usage, res,
                                     DictPut(byDate, date_key, DictPut(byDb, db, usage_value))),
                       sum   |-> SumUsage(acc.sum, res, date_key, db, usage_value)])
             ELSE CollectDates(Tail(dates), data, res, db, acc)

\* the loop over dbfiles: usage_per_type_date and sum_usage_per_type_date
RECURSIVE CollectDbs(_, _, _, _)
CollectDbs(dbs, store, per, acc) ==
    IF dbs = <<>> THEN acc
    ELSE LET data == dump_histogram_data(store[dbs[1]], per)
             cpu  == CollectDates(data.keys, data, "cpu", dbs[1], acc)
             mem  == CollectDates(data.keys, data, "mem", dbs[1], cpu)
         IN  CollectDbs(Tail(dbs), store, per, mem)

RECURSIVE Flatten(_)
Flatten(ss) == IF ss = <<>> THEN <<>> ELSE ss[1] \o Flatten(Tail(ss))

\* the (res, date_key, db, usage_value) of the three nested loops over
\* usage_per_type_date, in the order the loops visit them
Entries(usage) ==
    Flatten([i \in 1..Len(usage.keys) |->
        LET res == usage.keys[i] byDate == usage.val[res]
        IN  Flatten([j \in 1..Len(byDate.keys) |->
                LET date_key == byDate.keys[j] byDb == byDate.val[date_key]
                IN  [k \in 1..Len(byDb.keys) |->
                        [res |-> res, date_key |-> date_key, db |-> byDb.keys[k],
                         usage_value |-> byDb.val[byDb.keys[k]]]]])])

\* usage_cost with the percentage kept under CHARGE_BACK
usage_cost_percent(model, usage_value, total, rate) ==
    IF model = "RATIO" \/ model = "CHARGE_BACK"
    THEN RoundMulDiv(usage_value, 100 * Micro, total)
    ELSE usage_value

\* usage_cost of one entry, in 10^-6; total is sum_usage_per_type_date[res]
\* [date_key] and rate the value of the billing-rate entity for the date
usage_cost(model, usage_value, total, rate) ==
    IF model = "CHARGE_BACK" THEN RoundMulDiv(usage_value, rate, total)
    ELSE IF model = "RATIO" THEN RoundMulDiv(usage_value, 100 * Micro, total)
         ELSE usage_value

FnPut(f, k, v) == [x \in (DOMAIN f) \cup {k} |-> IF x = k THEN v ELSE f[x]]

\* the body of the three nested loops, entry by entry; the division by a
\* sum of 0.0 raises ZeroDivisionError, and under CHARGE_BACK the lookup of
\* the billing-rate entity in the dict of the date raises KeyError
RECURSIVE ExportEntries(_, _, _, _, _, _)
ExportEntries(entries, acc, model, per, t, out) ==
    IF entries = <<>> THEN out
    ELSE LET e     == entries[1]
             byDb  == acc.usage.val[e.res].val[e.date_key]
             total == acc.sum.val[e.res].val[e.date_key]
             rate  == Get(byDb, db_billing_hourly_rate, 0)
             cost  == usage_cost(model, e.usage_value, total, rate)
             rec   == [stack |-> e.db, usage |-> cost, date |-> e.date_key]
         IN  IF e.db = db_billing_hourly_rate
             THEN ExportEntries(Tail(entries), acc, model, per, t, out)
             ELSE IF model \in {"RATIO", "CHARGE_BACK"} /\ total = 0
                  THEN [out EXCEPT !.err = "ZeroDivisionError"]
             ELSE IF model = "CHARGE_BACK" /\ ~Has(byDb, db_billing_hourly_rate)
                  THEN [out EXCEPT !.err = "KeyError"]
                  ELSE ExportEntries(Tail(entries), acc, model, per, t,
                          [out EXCEPT !.usage_export[e.res] = Append(@, rec),
                                      !.gauges = IF get_date_group(t, per) = e.date_key
                                                 THEN FnPut(@, <<per, e.db, e.res>>, cost)
                                                 ELSE @])

NoUsage == [usage |-> EmptyDict, sum |-> EmptyDict]
NoExport == [cpu |-> <<>>, mem |-> <<>>]

(***************************************************************************)
(* Rrd.dump_trend_data and Rrd.dump_trend_analytics                        *)
(***************************************************************************)
enable_debug == FALSE     \* KOA_ENABLE_DEBUG, 'false' unless set

\* the instant of a fetched row
RowTime(i, step) == IF step = PERIOD_1_HOUR_SEC THEN i * StepsPerHour ELSE i

\* int(int(now_epoch_utc / PERIOD_1_HOUR_SEC) * PERIOD_1_HOUR_SEC)
CurrentHour(t) == (t \div StepsPerHour) * StepsPerHour

\* the loop of dump_trend_data over the fetched rows: a row with an unknown
\* value raises in float() and is passed over
RECURSIVE TrendRows(_, _, _, _, _, _)
TrendRows(i, rows, step, name, t, out) ==
    IF i \notin DOMAIN rows THEN out
    ELSE LET cdp == rows[i]
             rec(usage) == [name |-> name, dateUTC |-> RowTime(i, step), usage |-> usage]
         IN  IF cdp.known
             THEN TrendRows(i + 1, rows, step, name, t,
                    [cpu     |-> Append(out.cpu, rec(cdp.cpu)),
                     mem     |-> Append(out.mem, rec(cdp.mem)),
                     sum_cpu |-> out.sum_cpu + cdp.cpu,
                     sum_mem |-> out.sum_mem + cdp.mem,
                     gauges  |-> IF RowTime(i, step) = CurrentHour(t)
                                 THEN FnPut(FnPut(out.gauges,
                                                  <<PERIOD_1_HOUR_SEC, name, "cpu">>, cdp.cpu),
                                            <<PERIOD_1_HOUR_SEC, name, "mem">>, cdp.mem)
                                 ELSE out.gauges])
             ELSE TrendRows(i + 1, rows, step, name, t, out)

\* one pass of the body of dump_trend_data over the rows fetched at a step
TrendAt(rows, step, name, t, g) ==
    TrendRows(1, fetch(rows, step), step, name, t,
              [cpu |-> <<>>, mem |-> <<>>, sum_cpu |-> 0, sum_mem |-> 0, gauges |-> g])

\* 'if sum_res_usage[CPU] > 0.0 and sum_res_usage[MEMORY] > 0.0'
HasUsage(q) == q.sum_cpu > 0 /\ q.sum_mem > 0

\* 'if current_trend_data[res]: res_usage[res].append(current_trend_data[res])'
AppendTrend(usage, q) ==
    [cpu |-> IF q.cpu # <<>> THEN Append(usage.cpu, q.cpu) ELSE usage.cpu,
     mem |-> IF q.mem # <<>> THEN Append(usage.mem, q.mem) ELSE usage.mem]

(***************************************************************************)
(* The exporter thread: dump_analytics                                     *)
(***************************************************************************)
Orders(S) == {q \in [1..Cardinality(S) -> S] : \A i, j \in DOMAIN q : i # j => q[i] # q[j]}

\* os.walk(KOA_CONFIG.db_location): the file names, in the order of the
\* directory
walk ==
    /\ pcE = "walk"
    /\ \E order \in Orders(DOMAIN rrd) : dbfiles' = order
    /\ db_index' = 1 /\ res_usage' = NoExport /\ fetched' = <<>>
    /\ pcE' = "trend"
    /\ UNCHANGED <<mainVars, api, now, samplerVars, rrd, files, httpRead,
                   errE, period, usage_export, gauges>>

\* Rrd(...) for every db of a list, with rrdtool.create run whether the
\* file exists or not
OpenAll_create(store, dbs) ==
    [x \in (DOMAIN store) \cup {dbs[i] : i \in 1..Len(dbs)} |->
        IF x \in {dbs[i] : i \in 1..Len(dbs)} THEN NewRrd ELSE store[x]]

\* the files that exist after rrd = Rrd(db_files_location, dbname=db) for
\* every db of a list: create_rrd_file_if_not_exists leaves a file that
\* exists as it is
OpenAll(store, dbs) ==
    [x \in (DOMAIN store) \cup {dbs[i] : i \in 1..Len(dbs)} |->
        IF x \in DOMAIN store THEN store[x] ELSE NewRrd]

\* one turn of the loop of dump_trend_analytics: the billing-rate entity is
\* passed over; for another, rrd = Rrd(...) and dump_trend_data(period) with
\* the step of an hour, which calls itself with the step of five minutes
\* when the sums are not both above zero
dump_trend_data ==
    /\ pcE = "trend"
    /\ db_index <= Len(dbfiles)
    /\ LET db == dbfiles[db_index]
           q  == TrendAt(OpenAll(rrd, <<db>>)[db], PERIOD_1_HOUR_SEC, db, now, gauges)
       IN  IF db = db_billing_hourly_rate /\ ~enable_debug
           THEN /\ db_index' = db_index + 1
                /\ UNCHANGED <<rrd, pcE, res_usage, fetched, gauges>>
           ELSE /\ rrd' = OpenAll(rrd, <<db>>)
                /\ fetched' = Append(fetched, [db |-> db, step |-> PERIOD_1_HOUR_SEC])
                /\ gauges' = q.gauges
                /\ IF HasUsage(q)
                   THEN /\ res_usage' = AppendTrend(res_usage, q)
                        /\ db_index' = db_index + 1
                        /\ pcE' = pcE
                   ELSE /\ pcE' = "trend_retry"
                        /\ UNCHANGED <<res_usage, db_index>>
    /\ UNCHANGED <<mainVars, api, now, samplerVars, files, httpRead,
                   errE, dbfiles, period, usage_export>>

\* dump_trend_data(period, step_in=PERIOD_5_MINS_SEC): the data of the rows
\* of five minutes, or '', '' when their sums are not both above zero
dump_trend_data_retry ==
    /\ pcE = "trend_retry"
    /\ LET db == dbfiles[db_index]
           q  == TrendAt(rrd[db], PERIOD_5_MINS_SEC, db, now, gauges)
       IN  /\ fetched' = Append(fetched, [db |-> db, step |-> PERIOD_5_MINS_SEC])
           /\ gauges' = q.gauges
           /\ res_usage' = IF HasUsage(q) THEN AppendTrend(res_usage, q) ELSE res_usage
    /\ db_index' = db_index + 1
    /\ pcE' = "trend"
    /\ UNCHANGED <<mainVars, api, now, samplerVars, rrd, files, httpRead,
                   errE, dbfiles, period, usage_export>>

\* '[' + ','.join(res_usage[res]) + ']'
TrendDocument(res) == Flatten(res_usage[res])

\* open(.../<res>_usage_trends.json, 'w'), after the loop for the cpu file
TrendOpen(res, at, next) ==
    /\ pcE = at
    /\ at = "trend" => db_index > Len(dbfiles)
    /\ files' = [files EXCEPT ![TrendJson(res)] = Truncated]
    /\ pcE' = next
    /\ UNCHANGED <<mainVars, api, now, samplerVars, rrd, httpRead,
                   errE, dbfiles, period, usage_export, gauges, trendVars>>

\* fd.write(...) reaching the file in two parts
TrendFlush(res, at) ==
    /\ pcE = at
    /\ Len(TrendDocument(res)) > 1
    /\ files[TrendJson(res)] = Truncated
    /\ files' = [files EXCEPT ![TrendJson(res)] = Partial(TrendDocument(res))]
    /\ UNCHANGED <<mainVars, api, now, samplerVars, rrd, httpRead, exporterVars>>

\* the end of the with block; after the memory file, dump_analytics calls
\* dump_histogram_analytics with PERIOD_14_DAYS_SEC
TrendClose(res, at, next) ==
    /\ pcE = at
    /\ files' = [files EXCEPT ![TrendJson(res)] = Written(TrendDocument(res))]
    /\ pcE' = next
    /\ period' = IF next = "histogram" THEN PERIOD_14_DAYS_SEC ELSE period
    /\ UNCHANGED <<mainVars, api, now, samplerVars, rrd, httpRead,
                   errE, dbfiles, usage_export, gauges, trendVars>>

trend_cpu_open  == TrendOpen("cpu", "trend", "trend_cpu_write")
trend_cpu_flush == TrendFlush("cpu", "trend_cpu_write")
trend_cpu_close == TrendClose("cpu", "trend_cpu_write", "trend_mem_open")
trend_mem_open  == TrendOpen("mem", "trend_mem_open", "trend_mem_write")
trend_mem_flush == TrendFlush("mem", "trend_mem_write")
trend_mem_close == TrendClose("mem", "trend_mem_write", "histogram")

\* Rrd.dump_histogram_analytics(dbfiles, period) up to the first open(),
\* with rrd = Rrd(...) for every db
dump_histogram_analytics ==
    /\ pcE = "histogram"
    /\ rrd' = OpenAll(rrd, dbfiles)
    /\ LET acc == CollectDbs(dbfiles, OpenAll(rrd, dbfiles), period, NoUsage)
           out == ExportEntries(Entries(acc.usage), acc, cost_model, period, HourOf(now),
                                [err |-> "", usage_export |-> NoExport, gauges |-> gauges])
       IN  /\ gauges' = out.gauges
           /\ IF out.err = ""
              THEN /\ usage_export' = out.usage_export
                   /\ pcE' = "histogram_cpu_open" /\ errE' = errE
              ELSE /\ usage_export' = NoExport
                   /\ pcE' = "crashed" /\ errE' = out.err
    /\ UNCHANGED <<mainVars, api, now, samplerVars, files, httpRead, dbfiles, period,
                   trendVars>>

\* open(.../<res>_usage_period_<period>.json, 'w')
HistogramOpen(res, at, next) ==
    /\ pcE = at
    /\ files' = [files EXCEPT ![HistogramJson(res, period)] = Truncated]
    /\ pcE' = next
    /\ UNCHANGED <<mainVars, api, now, samplerVars, rrd, httpRead,
                   errE, dbfiles, period, usage_export, gauges, trendVars>>

\* fd.write(...) reaching the file in two parts
HistogramFlush(res, at) ==
    /\ pcE = at
    /\ Len(usage_export[res]) > 1
    /\ files[HistogramJson(res, period)] = Truncated
    /\ files' = [files EXCEPT ![HistogramJson(res, period)] = Partial(usage_export[res])]
    /\ UNCHANGED <<mainVars, api, now, samplerVars, rrd, httpRead, exporterVars>>

\* the end of the with block
HistogramClose(res, at, next) ==
    /\ pcE = at
    /\ files' = [files EXCEPT ![HistogramJson(res, period)] = Written(usage_export[res])]
    /\ pcE' = next
    /\ UNCHANGED <<mainVars, api, now, samplerVars, rrd, httpRead,
                   errE, dbfiles, period, usage_export, gauges, trendVars>>

histogram_cpu_open  == HistogramOpen("cpu", "histogram_cpu_open", "histogram_cpu_write")
histogram_cpu_flush == HistogramFlush("cpu", "histogram_cpu_write")
histogram_cpu_close == HistogramClose("cpu", "histogram_cpu_write", "histogram_mem_open")
histogram_mem_open  == HistogramOpen("mem", "histogram_mem_open", "histogram_mem_write")
histogram_mem_flush == HistogramFlush("mem", "histogram_mem_write")
histogram_mem_close == HistogramClose("mem", "histogram_mem_write", "histogram_done")

\* dump_analytics after a dump_histogram_analytics: the call for the year,
\* or time.sleep(export_interval)
histogram_next ==
    /\ pcE = "histogram_done"
    /\ IF period = PERIOD_14_DAYS_SEC
       THEN period' = PERIOD_YEAR_SEC /\ pcE' = "histogram"
       ELSE period' = period /\ pcE' = "sleeping"
    /\ UNCHANGED <<mainVars, api, now, samplerVars, rrd, files, httpRead,
                   errE, dbfiles, usage_export, gauges, trendVars>>

\* time.sleep(export_interval), and the next turn of the loop
export_sleep ==
    /\ pcE = "sleeping"
    /\ pcE' = "walk"
    /\ UNCHANGED <<mainVars, api, now, samplerVars, rrd, files, httpRead,
                   errE, dbfiles, period, usage_export, gauges, trendVars>>

(***************************************************************************)
(* Specifications                                                          *)
(***************************************************************************)
NoFunction == [x \in {} |-> 0]

\* the data of the process before any thread has run
InitData ==
    /\ err = ""
    /\ nodes = EmptyDict /\ pods = EmptyDict /\ nsResUsage = EmptyDict
    /\ cpuUsedByPods = 0 /\ memUsedByPods = 0
    /\ cpuCapacity = 0 /\ memCapacity = 0
    /\ cpuAllocatable = 0 /\ memAllocatable = 0
    /\ persisted = <<>> /\ logged = {}
    /\ files = [f \in Artifacts |-> NoFile]
    /\ httpRead = NoRead
    /\ errE = ""
    /\ dbfiles = <<>> /\ period = 0
    /\ usage_export = [cpu |-> <<>>, mem |-> <<>>]
    /\ gauges = NoFunction
    /\ db_index = 1 /\ res_usage = [cpu |-> <<>>, mem |-> <<>>] /\ fetched = <<>>

\* the state of the process when its threads start
InitThreads ==
    /\ pcM = "started"
    /\ pcS = "new"
    /\ pcE = "walk"
    /\ InitData

InitProcess == now = 1 /\ InitThreads

DefaultConfig == cost_model = "CUMULATIVE_RATIO" /\ billing_hourly_rate = Float(0 - Micro)

\* one sampler cycle up to the written node snapshot, over SnapshotApis
InitSnapshot ==
    /\ InitProcess /\ DefaultConfig
    /\ rrd = NoFunction
    /\ api \in SnapshotApis

NextSnapshot ==
    \/ NewSnapshot
    \/ extract_namespaces_and_initialize_usage
    \/ extract_nodes
    \/ extract_node_metrics
    \/ extract_pods
    \/ extract_pod_metrics
    \/ consolidate_ns_usage
    \/ dump_nodes_open
    \/ dump_nodes_flush
    \/ dump_nodes_close

SpecSnapshot == InitSnapshot /\ [][NextSnapshot]_vars

(***************************************************************************)
(* Properties of the usage snapshot builder                                *)
(***************************************************************************)
\* the pods that carry usage fields, and those of them whose node is not
\* in the node map
UsagePods == {k \in DOMAIN pods.val : pods.val[k].hasUsage}
StrayPods == {k \in UsagePods : ~Has(nodes, pods.val[k].nodeName)}

ConsolidationDone == pcS \in {"dump_nodes", "dump_nodes_write", "persisting", "sleeping"}
ConsolidationRan  == ConsolidationDone \/ (pcS = "crashed" /\ err = "KeyError")

NodeSum(f) == SumSeq(NodeField(nodes, f))

\* C1: when a pod that carries usage fields names a node that is not in the
\* node map (unset node name included), consolidate_ns_usage does not fail:
\* the pod is in no node's running-pods list, and the capacity and
\* allocatable of the nodes are summed.  (The namespaces of the pods are
\* known, so that the node lookup is the only lookup that can miss.)
C1_UnknownNodeSkipped ==
    (/\ ConsolidationRan
     /\ StrayPods # {}
     /\ \A k \in UsagePods : Has(nsResUsage, pods.val[k].namespace))
    => /\ pcS # "crashed"
       /\ \A n \in DOMAIN nodes.val :
             \A k \in StrayPods : k \notin Range(nodes.val[n].podsRunning)
       /\ cpuCapacity = NodeSum("cpuCapacity") /\ memCapacity = NodeSum("memCapacity")
       /\ cpuAllocatable = NodeSum("cpuAllocatable")
       /\ memAllocatable = NodeSum("memAllocatable")

\* the listings whose fetch failed
Absent == {e \in Endpoints : api[e].none}

ListedNodes      == {api.nodes.items[i].name : i \in 1..Len(api.nodes.items)}
ListedNamespaces == Range(api.namespaces.items)
ReportedPods     == {PodKey(api.pod_metrics.items[i].name, api.pod_metrics.items[i].namespace) :
                        i \in 1..Len(api.pod_metrics.items)}

\* the listings that were fetched agree with each other: every pod that
\* reports metrics is scheduled, on a listed node and in a listed namespace
ListingsAgree ==
    \A i \in 1..Len(api.pods.items) :
        LET pod == PodOfItem(api.pods.items[i])
        IN  pod.name \in ReportedPods =>
              /\ pod.nodeName # None
              /\ api.nodes.none \/ pod.nodeName \in ListedNodes
              /\ api.namespaces.none \/ pod.namespace \in ListedNamespaces

\* C2: a sampler cycle in which one of the five listings is absent does not
\* crash (its extraction step is skipped, the cycle consolidates and writes
\* the node snapshot)
C2_AbsentListingTolerated ==
    (Cardinality(Absent) = 1 /\ ListingsAgree) => pcS # "crashed"

PodUsageIn(ns, f) ==
    SumSeq([i \in 1..Len(pods.keys) |->
               LET pod == pods.val[pods.keys[i]]
               IN  IF pod.hasUsage /\ pod.namespace = ns THEN pod[f] ELSE 0])

NamespaceSum(f) ==
    SumSeq([i \in 1..Len(nsResUsage.keys) |-> nsResUsage.val[nsResUsage.keys[i]][f]])

\* C3: after consolidation the usage of every namespace is the sum of the
\* usage of exactly its metrics-reporting pods, and the namespaces add up
\* to the cluster-wide cpuUsedByPods and memUsedByPods
C3_NamespaceUsageIsPodSum ==
    ConsolidationDone =>
       /\ \A ns \in DOMAIN nsResUsage.val :
             /\ nsResUsage.val[ns].cpuUsage = PodUsageIn(ns, "cpuUsage")
             /\ nsResUsage.val[ns].memUsage = PodUsageIn(ns, "memUsage")
       /\ NamespaceSum("cpuUsage") = cpuUsedByPods
       /\ NamespaceSum("memUsage") = memUsedByPods

\* a consolidated snapshot of two namespaces, one of them with two
\* metrics-reporting pods of non-zero usage
C3_Witness ==
    /\ ConsolidationDone
    /\ Cardinality(DOMAIN nsResUsage.val) = 2
    /\ \E ns \in DOMAIN nsResUsage.val :
          Cardinality({k \in UsagePods : /\ pods.val[k].namespace = ns
                                         /\ pods.val[k].cpuUsage > 0
                                         /\ pods.val[k].memUsage > 0}) >= 2

(***************************************************************************)
(* extract_nodes over condition lists                                      *)
(***************************************************************************)
MaxConds == 3         \* the longest condition list of a node

ConditionSamples ==
    {Cond(t, st) : t \in NodeConditionTypes \cup {"PIDPressure"}, st \in {"True", "False"}}

ConditionLists == UNION {[1..k -> ConditionSamples] : k \in 0..MaxConds}

\* a node listing of one node, with any condition list
ConditionApis ==
    {[namespaces   |-> Listing(<<"a">>),
      nodes        |-> Listing(<<[NodeN1 EXCEPT !.conditions = conds]>>),
      node_metrics |-> NoData, pods |-> NoData, pod_metrics |-> NoData] :
        conds \in ConditionLists}

InitConditions ==
    /\ InitProcess /\ DefaultConfig
    /\ rrd = NoFunction
    /\ api \in ConditionApis

NextConditions ==
    \/ NewSnapshot
    \/ extract_namespaces_and_initialize_usage
    \/ extract_nodes

SpecConditions == InitConditions /\ [][NextConditions]_vars

\* the condition list the node n1 was built from, and the positions of its
\* conditions of a health type with status True
ListedConditions == api.nodes.items[1].conditions
TrueConditions   == {i \in 1..Len(ListedConditions) :
                        /\ ListedConditions[i].type \in NodeConditionTypes
                        /\ ListedConditions[i].status = "True"}

NodesExtracted == pcS = "node_metrics" /\ Has(nodes, "n1")

Priority == <<"Ready", "KernelDeadlock", "NetworkUnavailable", "OutOfDisk",
              "MemoryPressure", "DiskPressure">>

\* the Unknown of the data model: Node() leaves the state ''
Unknown == Node.state

HighestPriority ==
    IF TrueConditions = {} THEN Unknown
    ELSE LET ranks == {r \in 1..Len(Priority) :
                          \E i \in TrueConditions : ListedConditions[i].type = Priority[r]}
         IN  Priority[CHOOSE r \in ranks : \A q \in ranks : r <= q]

\* C7 as claimed: the health state of a node is the highest-priority type
\* (Ready > KernelDeadlock > NetworkUnavailable > OutOfDisk > MemoryPressure
\* > DiskPressure) among its conditions with status True, whatever their
\* order in the list, and Unknown (the state Node() starts with) when there
\* is none
C7_HighestPriorityCondition ==
    NodesExtracted => nodes.val["n1"].state = HighestPriority

FirstInList ==
    IF TrueConditions = {} THEN Unknown
    ELSE ListedConditions[CHOOSE i \in TrueConditions : \A j \in TrueConditions : i <= j].type

\* C7 amended: the health state of a node is the type of the first
\* condition, in the order of the list, whose type is one of the six health
\* types and whose status is True, and Unknown (the state Node() starts
\* with) when there is none
C7_FirstTrueConditionInList ==
    NodesExtracted => nodes.val["n1"].state = FirstInList

\* a node whose list has a True condition ahead of a True condition of
\* higher priority, and got the state of the former
C7_Witness ==
    /\ NodesExtracted
    /\ Cardinality(TrueConditions) >= 2
    /\ FirstInList # HighestPriority
    /\ nodes.val["n1"].state = FirstInList

(***************************************************************************)
(* extract_nodes and extract_node_metrics over quantity strings            *)
(***************************************************************************)
QuantitySamples ==
    {<<"2">>, <<"5", "0", "0", "m">>, <<"2", "5", "0", "n">>, <<"7", "u">>,
     <<"1", "K", "i">>, <<"1", "2", "8", "M", "i">>, <<"1", "G", "i">>,
     <<"1", "2", "8", "M">>, <<"1", "Z", "i">>, <<"0", ".", "5">>,
     <<"a", "b", "c">>, <<"x", "M", "i">>, <<>>}

\* a listing of two nodes and the metrics of both; the capacity of the
\* first node and the usage of the second are any two quantity strings
DecoderApis ==
    {[namespaces   |-> Listing(<<"a">>),
      nodes        |-> Listing(<<[NodeN1 EXCEPT !.capacity = [cpu |-> c, memory |-> q]],
                                 NodeN2>>),
      node_metrics |-> Listing(<<NodeMetricsN1, NodeMetricsItem("n2", c, q)>>),
      pods |-> NoData, pod_metrics |-> NoData] :
        c \in QuantitySamples, q \in QuantitySamples}

InitDecoder ==
    /\ InitProcess /\ DefaultConfig
    /\ rrd = NoFunction
    /\ api \in DecoderApis

NextDecoder ==
    \/ NewSnapshot
    \/ extract_namespaces_and_initialize_usage
    \/ extract_nodes
    \/ extract_node_metrics

SpecDecoder == InitDecoder /\ [][NextDecoder]_vars

\* C10: a malformed quantity string never aborts snapshot construction:
\* the cycle goes on, every node of the listing is extracted, and the
\* field of the malformed string is zero
C10_MalformedQuantityTolerated ==
    /\ pcS # "crashed"
    /\ pcS \in {"node_metrics", "pods"} =>
          /\ DOMAIN nodes.val = {"n1", "n2"}
          /\ LET c == decode_cpu_capacity(api.nodes.items[1].capacity.cpu)
                 q == decode_memory_capacity(api.nodes.items[1].capacity.memory)
             IN  /\ nodes.val["n1"].cpuCapacity = (IF c.ok THEN c.val ELSE 0)
                 /\ nodes.val["n1"].memCapacity = (IF q.ok THEN q.val ELSE 0)

(***************************************************************************)
(* One run of dump_analytics over the series stores of MaxTime instants    *)
(***************************************************************************)
Configs ==
    {[cost_model |-> "CUMULATIVE_RATIO", billing_hourly_rate |-> Float(0 - Micro)],
     [cost_model |-> "RATIO",            billing_hourly_rate |-> Float(1500000)],
     [cost_model |-> "CHARGE_BACK",      billing_hourly_rate |-> Float(1500000)]}

\* the rows the sampler may have stored for an instant: none (the update
\* failed or was not made), or the sample of a cycle
NamespaceRows      == {NoRow, Row(0, 0), Row(12500000, 25000000)}
NonAllocatableRows == {NoRow, Row(10000000, 5000000)}
BillingRows(rate)  == {NoRow, Row(rate, rate)}

\* the rows of a file whose samples were the same through each hour
Hourly(q) == [t \in 1..MaxTime |-> IF HourOf(t) <= NumHours THEN q[HourOf(t)] ELSE NoRow]

HistogramStores(rate) ==
    {[db \in {"a", db_non_allocatable, db_billing_hourly_rate} |->
         IF db = "a" THEN Hourly(ra)
         ELSE IF db = db_non_allocatable THEN Hourly(rn) ELSE Hourly(rb)] :
        ra \in [1..NumHours -> NamespaceRows],
        rn \in [1..NumHours -> NonAllocatableRows],
        rb \in [1..NumHours -> BillingRows(rate)]}

InitHistogram ==
    /\ InitThreads
    /\ now = MaxTime
    /\ api = [e \in Endpoints |-> NoData]
    /\ \E c \in Configs : /\ cost_model = c.cost_model
                          /\ billing_hourly_rate = c.billing_hourly_rate
    /\ rrd \in HistogramStores(billing_hourly_rate.micro)

NextHistogram ==
    \/ walk
    \/ dump_trend_data
    \/ dump_trend_data_retry
    \/ trend_cpu_open
    \/ trend_cpu_flush
    \/ trend_cpu_close
    \/ trend_mem_open
    \/ trend_mem_flush
    \/ trend_mem_close
    \/ dump_histogram_analytics
    \/ histogram_cpu_open
    \/ histogram_cpu_flush
    \/ histogram_cpu_close
    \/ histogram_mem_open
    \/ histogram_mem_flush
    \/ histogram_mem_close
    \/ histogram_next

SpecHistogram == InitHistogram /\ [][NextHistogram]_vars

ExportDone ==
    pcE \in {"histogram_cpu_open", "histogram_cpu_write", "histogram_mem_open",
             "histogram_mem_write", "histogram_done"}

ResUsageTypes == {"cpu", "mem"}
DateGroups(per) == {get_date_group(h, per) : h \in 1..NumHours}

\* the usage of an entity for a date group, 0 where it has none above zero
UsageOf(db, res, date_key, per) ==
    LET data == dump_histogram_data(rrd[db], per)
    IN  IF Has(data, date_key) /\ data.val[date_key][res] > 0
        THEN data.val[date_key][res] ELSE 0

\* the summed usage of the entities other than the billing-rate entity
TotalUsage(res, date_key, per) ==
    SumSeq([i \in 1..Len(dbfiles) |->
               IF dbfiles[i] = db_billing_hourly_rate THEN 0
               ELSE UsageOf(dbfiles[i], res, date_key, per)])

BillingRate(res, date_key, per) ==
    IF db_billing_hourly_rate \in DOMAIN rrd
    THEN UsageOf(db_billing_hourly_rate, res, date_key, per) ELSE 0

\* the cost records emitted for a date group
RecordsFor(res, date_key) ==
    LET OfDate(r) == r.date = date_key
    IN  SelectSeq(usage_export[res], OfDate)

CostSum(res, date_key) ==
    LET recs == RecordsFor(res, date_key)
    IN  SumSeq([i \in 1..Len(recs) |-> recs[i].usage])

\* each of the n costs is rounded to 10^-6, so their sum is within n/2 of
\* the exact sum
WithinRounding(sum, target, n) == 2 * (sum - target) <= n /\ 2 * (target - sum) <= n

MissingBilling(per) ==
    {x \in ResUsageTypes \X DateGroups(per) :
        TotalUsage(x[1], x[2], per) > 0 /\ BillingRate(x[1], x[2], per) = 0}

\* C4: under CHARGE_BACK, when a (resource, date group) has usage for some
\* entity and the billing-rate entity has none for that date group,
\* dump_histogram_analytics raises no error, emits no cost record for that
\* date, emits the records of every other date with usage, and goes on to
\* write both files.
C4_MissingBillingRateSkipped ==
    (/\ cost_model = "CHARGE_BACK"
     /\ pcE \notin {"walk", "histogram"}
     /\ MissingBilling(period) # {})
    => /\ pcE # "crashed" /\ errE = ""
       /\ \A x \in ResUsageTypes \X DateGroups(period) :
            IF x \in MissingBilling(period)
            THEN RecordsFor(x[1], x[2]) = <<>>
            ELSE TotalUsage(x[1], x[2], period) > 0 => RecordsFor(x[1], x[2]) # <<>>

\* C5: under RATIO, for every resource type and every date group whose summed
\* usage over the entities other than the billing-rate entity is above zero,
\* the emitted costs of the date are those of the other entities only and
\* sum to 100 within the rounding of the records.
C5_RatioCostsSumTo100 ==
    (cost_model = "RATIO" /\ ExportDone)
    => \A res \in ResUsageTypes, date_key \in DateGroups(period) :
          TotalUsage(res, date_key, period) > 0
          => LET recs == RecordsFor(res, date_key)
             IN  /\ recs # <<>>
                 /\ \A i \in 1..Len(recs) : recs[i].stack # db_billing_hourly_rate
                 /\ WithinRounding(CostSum(res, date_key), 100 * Micro, Len(recs))

\* an export under RATIO with two costs for a date, both rounded, beside a
\* billing-rate entity with a value for the date
C5_Witness ==
    /\ cost_model = "RATIO" /\ ExportDone
    /\ \E res \in ResUsageTypes, date_key \in DateGroups(period) :
          LET recs == RecordsFor(res, date_key)
          IN  /\ Len(recs) = 2
              /\ \A i \in 1..2 : recs[i].usage % Micro # 0
              /\ BillingRate(res, date_key, period) > 0

Init ==
    /\ InitProcess /\ DefaultConfig
    /\ rrd = NoFunction
    /\ api \in LoopApis

Next ==
    \/ NewSnapshot
    \/ extract_namespaces_and_initialize_usage
    \/ extract_nodes
    \/ extract_node_metrics
    \/ extract_pods
    \/ extract_pod_metrics
    \/ consolidate_ns_usage
    \/ dump_nodes_open
    \/ dump_nodes_flush
    \/ dump_nodes_close
    \/ persist_entity
    \/ persist_done
    \/ sleep
    \/ http_get

Spec == Init /\ [][Next]_vars

StoreErrors == {"OSError", "OperationalError"}

\* C8: in the persisting phase a failure while writing one entity's series,
\* the failure to open or create its store included, is caught and logged
\* and every remaining entity of the cycle is still appended; no such
\* failure ends the cycle or the loop.
C8_EntityFailureContained ==
    /\ err \notin StoreErrors
    /\ (pcS = "sleeping" /\ cpuCapacity > 0 /\ memCapacity > 0)
       => /\ persisted = PersistList
          /\ \A i \in 1..Len(PersistList) :
                \/ PersistList[i] \in logged
                \/ rrd[PersistList[i]][now] = SampleOf(PersistList[i])

\* C9: a reader of a published artifact observes the complete previous or
\* the complete new content, never an empty or partially written file.
C9_ReaderSeesWholeArtifact == httpRead.whole

\* C13: the sampler loop runs forever: whatever the cluster answers and the
\* storage does, every cycle goes on to its sleep and a new cycle begins; no
\* outcome of a cycle stops the loop.
C13_SamplerLoopNeverStops == pcS # "crashed"

\* what the calls of one cycle make of the listings a, from K8sUsage()
SnapshotOf(a) ==
    LET ns == IF a.namespaces.none THEN EmptyDict
              ELSE NamespacesFrom(a.namespaces.items, EmptyDict)
        n1 == IF a.nodes.none THEN [err |-> "", nodes |-> EmptyDict]
              ELSE NodesFrom(a.nodes.items, EmptyDict)
        n2 == IF a.node_metrics.none THEN n1
              ELSE NodeMetricsFrom(a.node_metrics.items, n1.nodes)
        p1 == IF a.pods.none THEN EmptyDict ELSE PodsFrom(a.pods.items, EmptyDict)
        p2 == IF a.pod_metrics.none THEN [err |-> "", pods |-> p1]
              ELSE PodMetricsFrom(a.pod_metrics.items, p1)
        u  == ConsolidatePods(Values(p2.pods),
                  [cpuUsedByPods |-> 0, memUsedByPods |-> 0,
                   nsResUsage |-> ns, nodes |-> n2.nodes, err |-> ""])
    IN  [nodes          |-> u.nodes,
         pods           |-> p2.pods,
         nsResUsage     |-> u.nsResUsage,
         cpuUsedByPods  |-> u.cpuUsedByPods,
         memUsedByPods  |-> u.memUsedByPods,
         cpuCapacity    |-> SumSeq(NodeField(u.nodes, "cpuCapacity")),
         memCapacity    |-> SumSeq(NodeField(u.nodes, "memCapacity")),
         cpuAllocatable |-> SumSeq(NodeField(u.nodes, "cpuAllocatable")),
         memAllocatable |-> SumSeq(NodeField(u.nodes, "memAllocatable"))]

\* the snapshot the sampler holds
Snapshot ==
    [nodes          |-> nodes,
     pods           |-> pods,
     nsResUsage     |-> nsResUsage,
     cpuUsedByPods  |-> cpuUsedByPods,
     memUsedByPods  |-> memUsedByPods,
     cpuCapacity    |-> cpuCapacity,
     memCapacity    |-> memCapacity,
     cpuAllocatable |-> cpuAllocatable,
     memAllocatable |-> memAllocatable]

\* C15: the snapshot is a function of the listings of the current cycle
\* only: in every cycle, whatever the cycles before observed, the nodes,
\* pods, running pods, namespace usage and totals a finished consolidation
\* leaves are those the same listings give from an empty snapshot; nothing
\* is carried over or added up from a cycle before.
C15_SnapshotOfCurrentListings ==
    pcS \in {"dump_nodes", "dump_nodes_write", "persisting", "sleeping"}
    => Snapshot = SnapshotOf(api)

\* the second cycle is through its consolidation, with a pod running on a
\* node, after a first cycle that stored usage of the namespace
C15_Witness ==
    /\ now = 2 /\ pcS = "sleeping"
    /\ \E n \in DOMAIN nodes.val : nodes.val[n].podsRunning # <<>>
    /\ "a" \in DOMAIN rrd /\ rrd["a"][1].known /\ rrd["a"][1].cpu > 0

(***************************************************************************)
(* Startup: KOA_CONFIG = Config(), the validation of the configuration and *)
(* the start of the two threads                                            *)
(***************************************************************************)
\* os.getenv(name): None when the variable is unset
Unset    == [set |-> FALSE, str |-> <<>>]
Env(str) == [set |-> TRUE,  str |-> str]

\* os.getenv(name, default)
getenv(v, default) == IF v.set THEN v.str ELSE default

IndexOf(s, c) ==
    IF \E i \in 1..Len(s) : s[i] = c
    THEN CHOOSE i \in 1..Len(s) : s[i] = c /\ \A j \in 1..(i - 1) : s[j] # c
    ELSE 0

\* the first six decimals of a fraction, in 10^-6
FracMicro(frac) ==
    NatVal([i \in 1..6 |-> IF i <= Len(frac) THEN frac[i] ELSE "0"])

\* float(x): TypeError on None, ValueError on a string that is no number;
\* of the strings Python accepts: an optional sign, digits with an optional
\* point, and nan
float(v) ==
    IF ~v.set THEN [ok |-> FALSE, val |-> NaN]
    ELSE LET s     == v.str
             neg   == s # <<>> /\ s[1] = "-"
             body  == IF s # <<>> /\ s[1] \in {"+", "-"} THEN Tail(s) ELSE s
             dot   == IndexOf(body, ".")
             whole == IF dot = 0 THEN body ELSE SubSeq(body, 1, dot - 1)
             frac  == IF dot = 0 THEN <<>> ELSE SubSeq(body, dot + 1, Len(body))
             micro == NatVal(whole) * Micro + FracMicro(frac)
         IN  IF body \in {<<"n", "a", "n">>, <<"N", "a", "N">>}
             THEN [ok |-> TRUE, val |-> NaN]
             ELSE IF /\ whole # <<>> \/ frac # <<>>
                     /\ \A i \in 1..Len(whole) : whole[i] \in Digits
                     /\ \A i \in 1..Len(frac) : frac[i] \in Digits
                  THEN [ok |-> TRUE, val |-> Float(IF neg THEN 0 - micro ELSE micro)]
                  ELSE [ok |-> FALSE, val |-> NaN]

\* Config.__init__: float(os.getenv('KOA_BILLING_HOURLY_RATE')), -1.0 when
\* it raises
ConfiguredRate(v) == IF float(v).ok THEN float(v).val ELSE Float(0 - Micro)

\* the environments of a start
CostModelEnv == {Unset, Env("CUMULATIVE_RATIO"), Env("RATIO"), Env("CHARGE_BACK")}
BillingRateEnv ==
    {Unset, Env(<<"a", "b", "c">>), Env(<<"0">>), Env(<<"-", "1", ".", "5">>),
     Env(<<"1", ".", "5">>), Env(<<"n", "a", "n">>)}

\* 'if KOA_CONFIG.cost_model == CHARGE_BACK and billing_hourly_rate <= 0.0:
\* sys.exit(1)'
validate ==
    /\ pcM = "validate"
    /\ pcM' = IF cost_model = "CHARGE_BACK" /\ FloatLE(billing_hourly_rate, Float(0))
              THEN "exited" ELSE "start_puller"
    /\ UNCHANGED <<cost_model, billing_hourly_rate, api, now, samplerVars, rrd, files,
                   httpRead, exporterVars>>

\* th_puller.start()
th_puller_start ==
    /\ pcM = "start_puller"
    /\ pcS' = "new"
    /\ pcM' = "start_exporter"
    /\ UNCHANGED <<cost_model, billing_hourly_rate, api, now, err, k8sVars, persisted,
                   logged, rrd, files, httpRead, exporterVars>>

\* th_exporter.start()
th_exporter_start ==
    /\ pcM = "start_exporter"
    /\ pcE' = "walk"
    /\ pcM' = "started"
    /\ UNCHANGED <<cost_model, billing_hourly_rate, api, now, samplerVars, rrd, files,
                   httpRead, errE, dbfiles, period, usage_export, gauges, trendVars>>

\* the process after KOA_CONFIG = Config(), with no series file yet
InitStartup ==
    /\ InitData
    /\ now = 1
    /\ pcM = "validate" /\ pcS = "unstarted" /\ pcE = "unstarted"
    /\ \E m \in CostModelEnv, r \in BillingRateEnv :
          /\ cost_model = getenv(m, "CUMULATIVE_RATIO")
          /\ billing_hourly_rate = ConfiguredRate(r)
    /\ rrd = NoFunction
    /\ api \in LoopApis

NextStartup ==
    \/ validate
    \/ th_puller_start
    \/ th_exporter_start
    \/ NewSnapshot
    \/ extract_namespaces_and_initialize_usage
    \/ extract_nodes
    \/ extract_node_metrics
    \/ extract_pods
    \/ extract_pod_metrics
    \/ consolidate_ns_usage
    \/ dump_nodes_open
    \/ dump_nodes_flush
    \/ dump_nodes_close
    \/ persist_entity
    \/ persist_done
    \/ walk

SpecStartup == InitStartup /\ [][NextStartup]_vars

\* C11: when the cost model is CHARGE_BACK and the configured hourly rate is
\* not above zero, the process exits before either thread starts: no poll, no
\* series append and no write of an artifact happens in the run.
C11_FatalMisconfiguration ==
    (cost_model = "CHARGE_BACK" /\ ~FloatGT(billing_hourly_rate, Float(0)))
    => /\ pcM \in {"validate", "exited"}
       /\ pcS = "unstarted" /\ pcE = "unstarted"
       /\ rrd = NoFunction
       /\ \A f \in Artifacts : files[f] = NoFile

(***************************************************************************)
(* The sampler thread and the exporter thread side by side                 *)
(***************************************************************************)
\* a cluster of one namespace and two nodes
ThreadsApi ==
    [namespaces   |-> Listing(<<"a", "b">>),
     nodes        |-> Listing(<<NodeN1, NodeN2>>),
     node_metrics |-> NoData,
     pods         |-> Listing(<<PodItem("p1", "a", "Running", TRUE,
                                         <<Cond("Ready", "True")>>, "n1")>>),
     pod_metrics  |-> Listing(<<PodMetricsItem("p1", "a",
                        <<Usage(<<"1", "0", "0", "m">>, <<"6", "4", "M", "i">>)>>)>>)]

\* a cluster that answers with its namespaces only
IdleApi ==
    [namespaces   |-> Listing(<<"a", "b">>),
     nodes        |-> NoData,
     node_metrics |-> NoData,
     pods         |-> NoData,
     pod_metrics  |-> NoData]

\* the first cycle of the sampler, with no series file yet and at the end
\* of an hour, beside the turns of the exporter loop
InitThreadsRun ==
    /\ InitThreads
    /\ \E c \in Configs : /\ cost_model = c.cost_model
                          /\ billing_hourly_rate = c.billing_hourly_rate
    /\ now = StepsPerHour
    /\ rrd = NoFunction
    /\ api \in {ThreadsApi, IdleApi}

NextThreadsRun ==
    \/ NewSnapshot
    \/ extract_namespaces_and_initialize_usage
    \/ extract_nodes
    \/ extract_node_metrics
    \/ extract_pods
    \/ extract_pod_metrics
    \/ consolidate_ns_usage
    \/ dump_nodes_open
    \/ dump_nodes_flush
    \/ dump_nodes_close
    \/ persist_entity
    \/ persist_done
    \/ walk
    \/ dump_trend_data
    \/ dump_trend_data_retry
    \/ trend_cpu_open
    \/ trend_cpu_flush
    \/ trend_cpu_close
    \/ trend_mem_open
    \/ trend_mem_flush
    \/ trend_mem_close
    \/ dump_histogram_analytics
    \/ histogram_cpu_open
    \/ histogram_cpu_flush
    \/ histogram_cpu_close
    \/ histogram_mem_open
    \/ histogram_mem_flush
    \/ histogram_mem_close
    \/ histogram_next
    \/ export_sleep

SpecThreads == InitThreadsRun /\ [][NextThreadsRun]_vars

\* a step of the exporter thread
ExporterStep == pcE' # pcE \/ exporterVars' # exporterVars

\* C12: each series entity is mutated by the sampler loop only: no step of
\* the exporter creates, appends to or otherwise changes a series file.
C12_ExporterOnlyReads == [][ExporterStep => rrd' = rrd]_vars

\* the exporter has opened and fetched every file of a walk that listed the
\* three files the sampler created, one of them with a stored sample
C12_Witness ==
    /\ pcE = "histogram_cpu_open"
    /\ Len(dbfiles) = 3
    /\ Len(fetched) >= 2
    /\ \E db \in DOMAIN rrd : rrd[db][now].known

(***************************************************************************)
(* Rrd.dump_trend_analytics over the series files of earlier cycles        *)
(***************************************************************************)
\* the rows the sampler may have stored for a namespace at an instant: none,
\* a namespace without usage, one whose pods use cpu and report no memory,
\* one with usage of both
TrendSamples == {NoRow, Row(0, 0), Row(12500000, 0), Row(12500000, 25000000)}

\* the files at the instant t: nothing is stored for an instant to come
TrendStores(t) ==
    {[db \in {"a", db_non_allocatable, db_billing_hourly_rate} |->
         [i \in 1..MaxTime |->
            IF i > t THEN NoRow
            ELSE IF db = "a" THEN ra[i]
            ELSE IF db = db_non_allocatable THEN Row(10000000, 5000000)
            ELSE Row(0 - Micro, 0 - Micro)]] :
        ra \in [1..MaxTime -> TrendSamples]}

InitTrend ==
    /\ InitThreads /\ DefaultConfig
    /\ api = [e \in Endpoints |-> NoData]
    /\ now \in 1..MaxTime
    /\ rrd \in TrendStores(now)

NextTrend ==
    \/ walk
    \/ dump_trend_data
    \/ dump_trend_data_retry
    \/ trend_cpu_open
    \/ trend_cpu_flush
    \/ trend_cpu_close
    \/ trend_mem_open
    \/ trend_mem_flush
    \/ trend_mem_close

SpecTrend == InitTrend /\ [][NextTrend]_vars

\* the entities dump_trend_analytics is through with, the steps of the
\* queries made for one, and whether the output holds records of it
TrendDone == {dbfiles[i] : i \in 1..(db_index - 1)} \ {db_billing_hourly_rate}
StepsOf(db) ==
    LET calls == SelectSeq(fetched, LAMBDA c : c.db = db)
    IN  [i \in 1..Len(calls) |-> calls[i].step]
InTrend(db, res) == \E i \in 1..Len(res_usage[res]) : res_usage[res][i][1].name = db

\* C14: dump_trend_data for one entity queries at the resolution of an hour
\* first; it queries again at the resolution of five minutes exactly when
\* the result of the hour has no non-zero aggregate usage at all, once and
\* never a third time; and when the samples of the hour are zero-valued and
\* those of five minutes are not, the output of the entity is non-empty.
C14_TrendFallback ==
    \A db \in TrendDone :
        LET hour == TrendAt(rrd[db], PERIOD_1_HOUR_SEC, db, now, gauges)
            mins == TrendAt(rrd[db], PERIOD_5_MINS_SEC, db, now, gauges)
            none == hour.sum_cpu = 0 /\ hour.sum_mem = 0
        IN  /\ StepsOf(db) \in {<<PERIOD_1_HOUR_SEC>>,
                                <<PERIOD_1_HOUR_SEC, PERIOD_5_MINS_SEC>>}
            /\ (Len(StepsOf(db)) = 2) <=> none
            /\ (none /\ (mins.sum_cpu # 0 \/ mins.sum_mem # 0))
               => (InTrend(db, "cpu") \/ InTrend(db, "mem"))

\* the (res, date_key, db) the cost loop of dump_histogram_analytics divides
\* for, with the sum it divides by
Divisions ==
    LET acc == CollectDbs(dbfiles, OpenAll(rrd, dbfiles), period, NoUsage)
        es  == Entries(acc.usage)
    IN  {[entry |-> es[i],
          sum   |-> Get(Get(acc.sum, es[i].res, EmptyDict), es[i].date_key, 0)] :
            i \in {j \in 1..Len(es) : es[j].db # db_billing_hourly_rate}}

\* C16: no ratio is computed with a zero denominator: the sampler computes
\* its ratios, and appends to a series, only in a cycle whose cpu and memory
\* capacities are both above zero, and under RATIO or CHARGE_BACK the cost
\* loop of dump_histogram_analytics divides by the sum of a (resource, date)
\* only when that sum is above zero; no division raises.
C16_NoZeroDenominator ==
    /\ err # "ZeroDivisionError" /\ errE # "ZeroDivisionError"
    /\ (pcS = "persisting" \/ persisted # <<>>) => (cpuCapacity > 0 /\ memCapacity > 0)
    /\ (pcE = "histogram" /\ cost_model \in {"RATIO", "CHARGE_BACK"})
       => \A d \in Divisions : d.sum > 0

\* under RATIO the sampler has appended the samples of a cycle, one of them
\* of a namespace without usage, and the exporter has divided for the costs
\* of a period
C16_Witness ==
    /\ cost_model = "RATIO"
    /\ pcS = "sleeping" /\ persisted = PersistList
    /\ "b" \in DOMAIN rrd /\ rrd["b"][now] = Row(0, 0)
    /\ pcE = "histogram_cpu_open" /\ errE = ""
    /\ Len(usage_export["cpu"]) >= 2

====
